---- MODULE Spec2Model ----
(***************************************************************************)
(* A model of riak/riak_object.py: the RiakObject conflict/version model. *)
(*                                                                         *)
(* Python objects and lists are references, so the model keeps two heaps:  *)
(*   heap  - the RiakObject instances, by identity (index in the sequence) *)
(*   lists - the sibling lists that are shared between objects, by         *)
(*           identity; an object's sibs field is 0 for a private empty     *)
(*           list (clear() and set_siblings() create a fresh [] that is    *)
(*           never mutated in place) or the identity of a shared list.     *)
(* A list no object refers to any more is unobservable and is collected.   *)
(*                                                                         *)
(* The metadata dict is kept by value together with its identity (the dict *)
(* field), because copy.copy() makes two objects refer to one dict and     *)
(* set_content_type(), add_link() and remove_link() change a dict in place.*)
(*                                                                         *)
(* The transport and the bucket are collaborators: what a transport call   *)
(* returns (or that it raises) is an input of the action that makes the    *)
(* call. The fields _links and _headers, which clear() resets and no       *)
(* operation modelled here reads, are left out; _client, _bucket and _key  *)
(* never change. A registered codec is taken not to raise.                 *)
(*                                                                         *)
(* Specifications: Spec (populate, the transport round trips and the       *)
(* sibling retrieval), SpecCore (the operations that clear or fill an      *)
(* object), SpecFields (populate and the setters, codec included) and      *)
(* SpecVclock (every operation on one object at a time).                   *)
(***************************************************************************)
EXTENDS Integers, Sequences, FiniteSets, TLC

VARIABLES heap, lists, last, calls

vars == <<heap, lists, last, calls>>

\* ---------------------------------------------------------------- bounds
MaxObj == 3        \* RiakObject instances ever created in one run
MaxLists == 2      \* shared sibling lists alive at the same time
MaxTags == 2       \* longest version-tag list a transport returns
MaxContents == 2   \* most content entries in a (vclock, contents) pair
MaxCalls == 3      \* calls made on the objects in one run

\* ------------------------------------------------------- values and inputs
None == "None"

\* Python's None where an integer quorum is expected (w=None, dw=None, ...).
QNone == 0

\* The payload: None, raw bytes as received, or an application value that a
\* decoder produced from bytes.
NoData == [kind |-> "none", v |-> "-"]
Bytes(b) == [kind |-> "bytes", v |-> b]
Value(b) == [kind |-> "value", v |-> b]

\* A byte string with a byte above 127, and which byte strings have none.
NonAscii == "0xCE 0xB2"

IsAscii(b) == b # NonAscii

\* The metadata dict: its content type (ctype = "absent" is a dict without the
\* MD_CTYPE key) and the list under MD_LINKS (a dict without that key reads as
\* the empty list, as remove_link() and get_links() read it).
MD(ct) == [ctype |-> ct, links |-> <<>>]

\* Elements of a sibling list: a RiakObject (by identity) or a vtag.
ObjRef(id) == [k |-> "obj", v |-> id]
TagRef(t) == [k |-> "tag", v |-> t]

\* One (metadata, data) entry of a pair's contents.
Entry(ct, b) == [md |-> MD(ct), data |-> b]

\* A json entry the bucket has a decoder for, and a binary one it has none for.
Json == Entry("json", "b1")
Binary == Entry("bin", "b2")

\* Content entry whose metadata carries no content type.
Untyped == Entry("absent", "b1")

\* n entries, json and binary in turn.
Versions(n) == [j \in 1..n |-> IF j % 2 = 1 THEN Json ELSE Binary]

\* The contents a transport returns: 0..MaxContents versions, or an untyped
\* entry as the only or the second version.
ContentsSet ==
  {Versions(n) : n \in 0..MaxContents} \cup {<<Untyped>>, <<Json, Untyped>>}

\* The three shapes populate() accepts, and one it does not.
NotFound == [shape |-> "none", tags |-> <<>>, vclock |-> None, contents |-> <<>>]
VtagList(k) == [shape |-> "list", tags |-> [j \in 1..k |-> j], vclock |-> None, contents |-> <<>>]
Pair(vc, cs) == [shape |-> "pair", tags |-> <<>>, vclock |-> vc, contents |-> cs]
Malformed == [shape |-> "bad", tags |-> <<>>, vclock |-> None, contents |-> <<>>]

\* No transport result at all (the transport raised, or was not called).
NoResult == [shape |-> "raise", tags |-> <<>>, vclock |-> None, contents |-> <<>>]

\* The pairs a transport returns: every contents under one vclock, and a
\* single version under another.
Pairs == {Pair("vc1", cs) : cs \in ContentsSet} \cup {Pair("vc2", Versions(1))}

Results == {NotFound, Malformed} \cup {VtagList(k) : k \in 0..MaxTags} \cup Pairs

\* What a transport call can do: return a result or raise.
Outcomes == Results \cup {NoResult}

Quorums == {QNone, 1}

\* ------------------------------------------------------------ the bucket
DefaultW == 2
DefaultDW == 3

get_w(w) == IF w = QNone THEN DefaultW ELSE w
get_dw(dw) == IF dw = QNone THEN DefaultDW ELSE dw

\* The bucket's codec registry: a decoder is registered for "json" only.
get_decoder(content_type) == IF content_type = "json" THEN "json" ELSE None

\* Applying a registered decoder turns bytes into an application value.
decoder(data) == Value(data)

\* An encoder is registered for "json" only.
get_encoder(content_type) == IF content_type = "json" THEN "json" ELSE None

\* Applying a registered encoder gives the bytes the value was decoded from,
\* and for a string the bytes of its json text.
encoder(data) ==
  IF data.kind = "value" THEN Bytes(data.v) ELSE Bytes("json text")

\* A link: RiakLink(bucket, key, tag), the tag defaulting to the bucket name.
RiakLink(bucket, key, tag) ==
  [bucket |-> bucket, key |-> key, tag |-> IF tag = None THEN bucket ELSE tag]

\* link.isEqual(other): equality of the triple (bucket, key, tag).
isEqual(link, other) ==
  link.bucket = other.bucket /\ link.key = other.key /\ link.tag = other.tag

\* ---------------------------------------------------------- RiakObject
\* __init__: the fields of a freshly constructed object.
\* dict is the identity of the metadata dict: 0 for a dict no other object
\* refers to, else a number that the objects referring to one dict share.
RiakObject ==
  [encode_data |-> TRUE, vclock |-> None, data |-> NoData,
   metadata |-> MD("absent"), dict |-> 0, sibs |-> 0, exists |-> FALSE]

\* clear() that forgets the vclock too.
clear_resetting_vclock(o) ==
  [o EXCEPT !.data = NoData, !.exists = FALSE, !.sibs = 0, !.vclock = None]

\* clear() that leaves the payload as it is.
clear_keeping_data(o) == [o EXCEPT !.exists = FALSE, !.sibs = 0]

\* clear() without its last assignment: the siblings are kept.
clear_keeping_siblings(o) == [o EXCEPT !.data = NoData, !.exists = FALSE]

\* clear(): resets data, exists and siblings (to a fresh empty list); the
\* vclock and the metadata are not touched.
clear(o) == [o EXCEPT !.data = NoData, !.exists = FALSE, !.sibs = 0]

\* set_metadata() that fills the dict the object has instead of taking the
\* caller's.
set_metadata_in_place(o, metadata) == [o EXCEPT !.metadata = metadata]

\* set_metadata(metadata): the object refers to the caller's dict from now on.
set_metadata(o, metadata) == [o EXCEPT !.metadata = metadata, !.dict = 0]

\* set_encoded_data(): [ok, obj]; ok is FALSE when get_content_type() raises
\* KeyError because the metadata has no content type.
set_encoded_data(o, data) ==
  IF o.encode_data
  THEN IF o.metadata.ctype = "absent"
       THEN [ok |-> FALSE, obj |-> o]
       ELSE IF get_decoder(o.metadata.ctype) = None
            THEN [ok |-> TRUE, obj |-> [o EXCEPT !.data = Bytes(data)]]
            ELSE [ok |-> TRUE, obj |-> [o EXCEPT !.data = decoder(data)]]
  ELSE [ok |-> TRUE, obj |-> [o EXCEPT !.data = Bytes(data)]]

set_data(o, data) == [o EXCEPT !.data = data]

\* str.encode() of Python 2 on a byte string: the string is first decoded as
\* ASCII, which fails (UnicodeDecodeError) on any byte above 127.
encode(b) == IF IsAscii(b) THEN [raised |-> "none", ret |-> Bytes(b)]
             ELSE [raised |-> "unicode", ret |-> NoData]

\* get_encoded_data(): what it returns, or that it raised: "key" (KeyError from
\* get_content_type()), "unicode" (from encode()) or "unencodable" (RiakError).
get_encoded_data(o) ==
  IF o.encode_data
  THEN IF o.metadata.ctype = "absent" THEN [raised |-> "key", ret |-> NoData]
       ELSE IF get_encoder(o.metadata.ctype) = None
            THEN IF o.data.kind = "bytes" THEN encode(o.data.v)
                 ELSE [raised |-> "unencodable", ret |-> NoData]
            ELSE [raised |-> "none", ret |-> encoder(o.data)]
  ELSE [raised |-> "none", ret |-> o.data]

\* list.index(x): position of the first element equal to x, 0 when absent
\* (Python raises ValueError).
RECURSIVE IndexFrom(_, _, _)
IndexFrom(s, x, k) ==
  IF k > Len(s) THEN 0 ELSE IF s[k] = x THEN k ELSE IndexFrom(s, x, k + 1)

index(s, x) == IndexFrom(s, x, 1)

\* list.pop(i) on a 1-based position.
pop(s, i) == SubSeq(s, 1, i - 1) \o SubSeq(s, i + 1, Len(s))

\* The state of the two heaps, as the operations below pass it along.
St(h, l) == [heap |-> h, lists |-> l]

\* Drops the shared lists no object refers to and renumbers the others
\* (Python's reference counting; list identities are not observable).
Collect(st) ==
  LET used == {st.heap[o].sibs : o \in 1..Len(st.heap)} \ {0}
      rank(id) == Cardinality({u \in used : u <= id})
  IN St([o \in 1..Len(st.heap) |->
           [st.heap[o] EXCEPT !.sibs = IF @ = 0 THEN 0 ELSE rank(@)]],
        [j \in 1..Cardinality(used) |-> st.lists[CHOOSE u \in used : rank(u) = j]])

\* How an operation ended: raised is "none", "transport" (the transport call
\* raised), "populate" (populate raised) or "index" (IndexError).
End(st, raised) ==
  LET c == Collect(st) IN [heap |-> c.heap, lists |-> c.lists, raised |-> raised]

\* self._metadata[key] = value: the dict is changed in place, so for every
\* object that refers to it.
setitem(st, self, metadata) ==
  LET d == st.heap[self].dict
  IN St([p \in 1..Len(st.heap) |->
           IF p = self \/ (d # 0 /\ st.heap[p].dict = d)
           THEN [st.heap[p] EXCEPT !.metadata = metadata] ELSE st.heap[p]],
        st.lists)

set_content_type(st, self, content_type) ==
  setitem(st, self, [st.heap[self].metadata EXCEPT !.ctype = content_type])

get_links(st, self) == st.heap[self].metadata.links

\* remove_link(obj, tag), oldlink being the RiakLink made of the arguments.
remove_link(st, self, oldlink) ==
  LET keep(link) == ~isEqual(link, oldlink)
  IN setitem(st, self, [st.heap[self].metadata EXCEPT !.links = SelectSeq(@, keep)])

\* add_link() without the remove_link() in front of the append.
add_link_appending(st, self, newlink) ==
  setitem(st, self, [st.heap[self].metadata EXCEPT !.links = Append(@, newlink)])

\* add_link(obj, tag), newlink being the RiakLink made of the arguments.
add_link(st, self, newlink) ==
  LET removed == remove_link(st, self, newlink)
  IN setitem(removed, self,
             [removed.heap[self].metadata EXCEPT !.links = Append(@, newlink)])

\* self._siblings as a sequence.
siblings_of(st, self) ==
  IF st.heap[self].sibs = 0 THEN <<>> ELSE st.lists[st.heap[self].sibs]

\* set_siblings() without the test on the length: a list of one is kept too.
set_siblings_keeping_one(st, self, lid) ==
  LET siblings == st.lists[lid]
      i == index(siblings, ObjRef(self))
      moved == IF i > 1 THEN <<ObjRef(self)>> \o pop(siblings, i) ELSE siblings
  IN St([st.heap EXCEPT ![self].sibs = lid], [st.lists EXCEPT ![lid] = moved])

\* set_siblings(siblings), siblings being the list with identity lid: moves
\* self to the front of that list, in place, and keeps a reference to it
\* unless it has at most one element.
set_siblings(st, self, lid) ==
  LET siblings == st.lists[lid]
      i == index(siblings, ObjRef(self))
      moved == IF i > 1 THEN <<ObjRef(self)>> \o pop(siblings, i) ELSE siblings
  IN St([st.heap EXCEPT ![self].sibs = IF Len(moved) > 1 THEN lid ELSE 0],
        [st.lists EXCEPT ![lid] = moved])

\* "for sibling in siblings: sibling.set_siblings(siblings)": Python's list
\* iterator walks positions k = 1, 2, ... of the list as it is at that moment,
\* while set_siblings reorders the same list.
RECURSIVE for_sibling_in_siblings(_, _, _)
for_sibling_in_siblings(st, lid, k) ==
  IF k > Len(st.lists[lid]) THEN st
  ELSE for_sibling_in_siblings(set_siblings(st, st.lists[lid][k].v, lid), lid, k + 1)

\* populate(Result) for a (vclock, contents) tuple, after the clear().
populate_pair(st, self, vclock, contents) ==
  LET c == St([st.heap EXCEPT ![self].vclock = vclock], st.lists)
  IN IF Len(contents) = 0 THEN End(c, "none")
     ELSE
       LET first == contents[1]
           rest == Tail(contents)
           named == set_metadata([c.heap[self] EXCEPT !.exists = TRUE], first.md)
           own == set_encoded_data(named, first.data)
           \* copy.copy(self) refers to the dict self refers to; then the entry's
           \* metadata and data are set
           copy == [own.obj EXCEPT !.dict = IF @ = 0 THEN Len(c.heap) + 1 ELSE @]
           copies == [j \in 1..Len(rest) |->
                        set_encoded_data(set_metadata(copy, rest[j].md), rest[j].data)]
           \* self shares its dict with the copies that still refer to it
           shared == IF \E j \in 1..Len(rest) : copies[j].obj.dict = copy.dict
                     THEN copy ELSE own.obj
           base == Len(c.heap)
           lid == Len(c.lists) + 1
           siblings == <<ObjRef(self)>> \o [j \in 1..Len(rest) |-> ObjRef(base + j)]
       IN IF ~own.ok
          THEN End(St([c.heap EXCEPT ![self] = named], c.lists), "populate")
          ELSE IF \E j \in 1..Len(rest) : ~copies[j].ok
          THEN End(St([c.heap EXCEPT ![self] = own.obj], c.lists), "populate")
          ELSE End(for_sibling_in_siblings(
                     St([c.heap EXCEPT ![self] = shared]
                          \o [j \in 1..Len(rest) |-> copies[j].obj],
                        Append(c.lists, siblings)),
                     lid, 1), "none")

\* populate(Result)
populate(st, self, Result) ==
  LET c == St([st.heap EXCEPT ![self] = clear(@)], st.lists)
  IN CASE Result.shape = "none" -> End(c, "none")
       [] Result.shape = "list" ->
            End(set_siblings(
                  St(c.heap, Append(c.lists,
                       [j \in 1..Len(Result.tags) |-> TagRef(Result.tags[j])])),
                  self, Len(c.lists) + 1), "none")
       [] Result.shape = "pair" ->
            populate_pair(c, self, Result.vclock, Result.contents)
       [] OTHER -> End(c, "populate")

\* reload() with the clear() moved in front of the read.
reload_clearing_first(st, self, out) ==
  LET c == St([st.heap EXCEPT ![self] = clear(@)], st.lists)
  IN IF out = NoResult THEN End(c, "transport")
     ELSE IF out # NotFound THEN populate(c, self, out) ELSE End(c, "none")

\* reload() that adds a list of vtags to the siblings the object had.
reload_extending(st, self, out) ==
  LET c == St([st.heap EXCEPT ![self] = clear(@)], st.lists)
      all == siblings_of(st, self) \o [j \in 1..Len(out.tags) |-> TagRef(out.tags[j])]
  IN IF out = NoResult THEN End(st, "transport")
     ELSE IF out.shape = "list"
     THEN End(set_siblings(St(c.heap, Append(c.lists, all)), self, Len(c.lists) + 1), "none")
     ELSE IF out # NotFound THEN populate(c, self, out) ELSE End(c, "none")

\* reload(r, vtag), given what t.get does.
reload(st, self, out) ==
  IF out = NoResult THEN End(st, "transport")
  ELSE LET c == St([st.heap EXCEPT ![self] = clear(@)], st.lists)
       IN IF out # NotFound THEN populate(c, self, out) ELSE End(c, "none")

\* How store() ended, with what t.put received.
with_put(end, put) ==
  [heap |-> end.heap, lists |-> end.lists, raised |-> end.raised, put |-> put]

\* store(w, dw, return_body), given what t.put does; put is what t.put received.
store(st, self, w, dw, out) ==
  LET w1 == get_w(w)
      dw1 == get_dw(w1)
      put == [called |-> TRUE, w |-> w1, dw |-> dw1, vclock |-> st.heap[self].vclock]
  IN with_put(IF out = NoResult THEN End(st, "transport")
              ELSE IF out # NotFound THEN populate(st, self, out) ELSE End(st, "none"),
              put)

\* delete() that clears only when t.delete returned something.
delete_when_answered(st, self, out) ==
  IF out = NoResult THEN End(st, "transport")
  ELSE IF out = NotFound THEN End(st, "none")
  ELSE End(St([st.heap EXCEPT ![self] = clear(@)], st.lists), "none")

\* delete(rw), given what t.delete does.
delete(st, self, out) ==
  IF out = NoResult THEN End(st, "transport")
  ELSE End(St([st.heap EXCEPT ![self] = clear(@)], st.lists), "none")

get_sibling_count(st, self) == Len(siblings_of(st, self))

has_siblings(st, self) == get_sibling_count(st, self) > 0

\* get_sibling() that returns the fetched object without putting it in the
\* place of the vtag.
fetched_not_stored(st, self, i, vtag, got) ==
  LET lid == st.heap[self].sibs
      id == Len(st.heap) + 1
      obj == [got.heap[id] EXCEPT !.sibs = lid]
  IN IF got.raised # "none"
     THEN [heap |-> st.heap, lists |-> st.lists, raised |-> got.raised, ret |-> 0,
           reads |-> <<vtag>>]
     ELSE [heap |-> Append(st.heap, obj), lists |-> st.lists, raised |-> "none",
           ret |-> id, reads |-> <<vtag>>]

\* get_sibling() that hands the fetched object a copy of the sibling list.
fetched_copying(st, self, i, vtag, got) ==
  LET lid == st.heap[self].sibs
      id == Len(st.heap) + 1
      new == Len(st.lists) + 1
      obj == [got.heap[id] EXCEPT !.sibs = 0]
      stored == [st.lists EXCEPT ![lid][i + 1] = ObjRef(id)]
      done == set_siblings(St(Append(st.heap, obj), Append(stored, stored[lid])), id, new)
  IN IF got.raised # "none"
     THEN [heap |-> st.heap, lists |-> st.lists, raised |-> got.raised, ret |-> 0,
           reads |-> <<vtag>>]
     ELSE [heap |-> done.heap, lists |-> done.lists, raised |-> "none", ret |-> id,
           reads |-> <<vtag>>]

\* The else branch of get_sibling() after obj.reload(r, vtag) did got to the
\* new object: the object replaces the vtag at index i and set_siblings()
\* hands it the list.
fetched(st, self, i, vtag, got) ==
  LET lid == st.heap[self].sibs
      id == Len(st.heap) + 1
      \* the new object's own sibling list is replaced by set_siblings below
      \* (the shared list has at least two elements), and whatever populate
      \* created beside the new object is referred to by nothing else
      obj == [got.heap[id] EXCEPT !.sibs = 0]
      done == set_siblings(St(Append(st.heap, obj),
                              [st.lists EXCEPT ![lid][i + 1] = ObjRef(id)]), id, lid)
  IN IF got.raised # "none"
     THEN [heap |-> st.heap, lists |-> st.lists, raised |-> got.raised, ret |-> 0,
           reads |-> <<vtag>>]
     ELSE [heap |-> done.heap, lists |-> done.lists, raised |-> "none", ret |-> id,
           reads |-> <<vtag>>]

\* get_sibling(i, r), given what t.get does if it is called: ret is the
\* returned object (0 when the call raised), reads the vtags t.get was asked for.
get_sibling(st, self, i, out) ==
  LET s == siblings_of(st, self)
  IN IF i >= Len(s)
     THEN [heap |-> st.heap, lists |-> st.lists, raised |-> "index", ret |-> 0, reads |-> <<>>]
     ELSE IF s[i + 1].k = "obj"
     THEN [heap |-> st.heap, lists |-> st.lists, raised |-> "none", ret |-> s[i + 1].v,
           reads |-> <<>>]
     ELSE fetched(st, self, i, s[i + 1].v,
                  reload(St(Append(st.heap, RiakObject), st.lists), Len(st.heap) + 1, out))

\* get_siblings(r): a = [self], then a.append(self.get_sibling(i, r)) for i in
\* range(count), the count taken once; answer[t] is what t.get does for vtag t.
RECURSIVE get_siblings_from(_, _, _, _, _, _, _)

\* a.append(self.get_sibling(i, r)), r being how that get_sibling() ended.
appended(r, self, i, count, answer, a, reads) ==
  IF r.raised # "none"
  THEN [heap |-> r.heap, lists |-> r.lists, raised |-> r.raised, a |-> <<>>,
        reads |-> reads \o r.reads]
  ELSE get_siblings_from(St(r.heap, r.lists), self, i + 1, count, answer,
                         Append(a, r.ret), reads \o r.reads)

get_siblings_from(st, self, i, count, answer, a, reads) ==
  IF i = count
  THEN [heap |-> st.heap, lists |-> st.lists, raised |-> "none", a |-> a, reads |-> reads]
  ELSE LET s == siblings_of(st, self)
           out == IF i < Len(s) /\ s[i + 1].k = "tag" THEN answer[s[i + 1].v] ELSE NoResult
       IN appended(get_sibling(st, self, i, out), self, i, count, answer, a, reads)

get_siblings(st, self, answer) ==
  get_siblings_from(st, self, 0, get_sibling_count(st, self), answer, <<self>>, <<>>)

\* ------------------------------------------------------------ the system
\* A run is a sequence of calls on the objects; the last call of a run may be
\* observed, and last is then the record of it: the operation, the object it
\* was called on, its arguments, what the transport did (arg), how the call
\* ended, what it returned, and the heaps as they were before it (pre).
\* Nothing is called after the observed call.

\* What t.put received; called is FALSE when no put was issued.
NoPut == [called |-> FALSE, w |-> QNone, dw |-> QNone, vclock |-> None]

Now == St(heap, lists)

\* No link argument.
NoLink == RiakLink(None, None, None)

Call(op, self) ==
  [op |-> op, obj |-> self, arg |-> NoResult, raised |-> "none", i |-> 0, ret |-> 0,
   reads |-> <<>>, a |-> <<>>, w |-> QNone, dw |-> QNone, put |-> NoPut,
   data |-> NoData, metadata |-> MD("absent"), link |-> NoLink, pre |-> Now]

\* No call is observed yet.
Idle == [Call("-", 0) EXCEPT !.pre = St(<<>>, <<>>)]

Observed(observe, call) == IF observe THEN call ELSE Idle

Objects == 1..Len(heap)

Fits(r) == Len(r.heap) <= MaxObj /\ Len(r.lists) <= MaxLists

\* One more call is made.
Called == last = Idle /\ calls < MaxCalls /\ calls' = calls + 1

Init ==
  /\ heap = <<RiakObject>>
  /\ lists = <<>>
  /\ last = Idle
  /\ calls = 0

Populate ==
  /\ Called
  /\ \E self \in Objects, Result \in Results, observe \in BOOLEAN :
       LET r == populate(Now, self, Result)
       IN /\ Fits(r)
          /\ heap' = r.heap
          /\ lists' = r.lists
          /\ last' = Observed(observe,
                       [Call("populate", self) EXCEPT !.arg = Result, !.raised = r.raised])

Reload ==
  /\ Called
  /\ \E self \in Objects, out \in Outcomes, observe \in BOOLEAN :
       LET r == reload(Now, self, out)
       IN /\ Fits(r)
          /\ heap' = r.heap
          /\ lists' = r.lists
          /\ last' = Observed(observe,
                       [Call("reload", self) EXCEPT !.arg = out, !.raised = r.raised])

\* return_body is handed to t.put as it is; store() does not read it.
Store ==
  /\ Called
  /\ \E self \in Objects, w \in Quorums, dw \in Quorums, out \in Outcomes,
        observe \in BOOLEAN :
       LET r == store(Now, self, w, dw, out)
       IN /\ Fits(r)
          /\ heap' = r.heap
          /\ lists' = r.lists
          /\ last' = Observed(observe,
                       [Call("store", self) EXCEPT !.arg = out, !.raised = r.raised,
                                                  !.w = w, !.dw = dw, !.put = r.put])

\* t.delete returns some value, which delete() ignores, or raises.
Delete ==
  /\ Called
  /\ \E self \in Objects, out \in {NoResult, NotFound, Malformed}, observe \in BOOLEAN :
       LET r == delete(Now, self, out)
       IN /\ heap' = r.heap
          /\ lists' = r.lists
          /\ last' = Observed(observe,
                       [Call("delete", self) EXCEPT !.arg = out, !.raised = r.raised])

Clear ==
  /\ Called
  /\ \E self \in Objects, observe \in BOOLEAN :
       LET r == End(St([heap EXCEPT ![self] = clear(@)], lists), "none")
       IN /\ heap' = r.heap
          /\ lists' = r.lists
          /\ last' = Observed(observe, Call("clear", self))

\* What t.get does when asked for one sibling by its vtag: it raises, finds
\* nothing, returns that version, or returns something populate rejects.
SiblingOutcomes ==
  {NoResult, NotFound, Malformed, Pair("vc1", <<Json>>), Pair("vc2", <<Binary>>)}

GetSibling ==
  /\ Called
  /\ \E self \in Objects, out \in SiblingOutcomes, observe \in BOOLEAN :
     \E i \in 0..get_sibling_count(Now, self) :
       LET r == get_sibling(Now, self, i, out)
       IN /\ Fits(r)
          \* t.get is only asked when the element is a vtag
          /\ (r.reads = <<>>) => (out = NoResult)
          /\ heap' = r.heap
          /\ lists' = r.lists
          /\ last' = Observed(observe,
                       [Call("get_sibling", self) EXCEPT
                          !.arg = out, !.raised = r.raised, !.i = i, !.ret = r.ret,
                          !.reads = r.reads])

\* Every read of get_siblings() raises, finds nothing or returns a version.
GetSiblings ==
  /\ Called
  /\ \E self \in Objects, answer \in [1..MaxTags -> SiblingOutcomes \ {Malformed}],
        observe \in BOOLEAN :
       LET r == get_siblings(Now, self, answer)
       IN /\ Fits(r)
          \* the answer to a vtag that is never read does not matter
          /\ \A t \in 1..MaxTags : (\A k \in 1..Len(r.reads) : r.reads[k] # t)
                                      => answer[t] = NoResult
          /\ heap' = r.heap
          /\ lists' = r.lists
          /\ last' = Observed(observe,
                       [Call("get_siblings", self) EXCEPT
                          !.raised = r.raised, !.a = r.a, !.reads = r.reads])

\* The payloads an application sets: two byte strings and a decoded value.
Payloads == {Bytes("b1"), Bytes(NonAscii), Value("b1")}

\* Three links, and the argument triples of add_link() and remove_link():
\* LinkA with its tag left out and given, and LinkB.
LinkA == RiakLink("bk1", "k1", None)
LinkB == RiakLink("bk1", "k2", "t")
LinkC == RiakLink("bk2", "k1", "bk1")

LinkArgs == {<<"bk1", "k1", None>>, <<"bk1", "k1", "bk1">>, <<"bk1", "k2", "t">>}

\* The metadata an application sets: a content type without links, and one
\* with three links.
Metadatas == {MD("bin"), [MD("json") EXCEPT !.links = <<LinkA, LinkB, LinkC>>]}

ContentTypes == {"json", "bin"}

SetData ==
  /\ Called
  /\ \E self \in Objects, data \in Payloads, observe \in BOOLEAN :
       /\ heap' = [heap EXCEPT ![self] = set_data(@, data)]
       /\ lists' = lists
       /\ last' = Observed(observe, [Call("set_data", self) EXCEPT !.data = data])

SetMetadata ==
  /\ Called
  /\ \E self \in Objects, metadata \in Metadatas, observe \in BOOLEAN :
       LET r == End(St([heap EXCEPT ![self] = set_metadata(@, metadata)], lists), "none")
       IN /\ heap' = r.heap
          /\ lists' = r.lists
          /\ last' = Observed(observe,
                       [Call("set_metadata", self) EXCEPT !.metadata = metadata])

SetContentType ==
  /\ Called
  /\ \E self \in Objects, content_type \in ContentTypes, observe \in BOOLEAN :
       LET r == set_content_type(Now, self, content_type)
       IN /\ heap' = r.heap
          /\ lists' = r.lists
          /\ last' = Observed(observe,
                       [Call("set_content_type", self) EXCEPT
                          !.metadata = MD(content_type)])

AddLink ==
  /\ Called
  /\ \E self \in Objects, args \in LinkArgs, observe \in BOOLEAN :
       LET newlink == RiakLink(args[1], args[2], args[3])
           r == add_link(Now, self, newlink)
       IN /\ heap' = r.heap
          /\ lists' = r.lists
          /\ last' = Observed(observe, [Call("add_link", self) EXCEPT !.link = newlink])

RemoveLink ==
  /\ Called
  /\ \E self \in Objects, args \in LinkArgs, observe \in BOOLEAN :
       LET oldlink == RiakLink(args[1], args[2], args[3])
           r == remove_link(Now, self, oldlink)
       IN /\ heap' = r.heap
          /\ lists' = r.lists
          /\ last' = Observed(observe, [Call("remove_link", self) EXCEPT !.link = oldlink])

\* set_encoded_data(data) called by the application with the bytes b.
SetEncodedData ==
  /\ Called
  /\ \E self \in Objects, b \in {"b1", NonAscii}, observe \in BOOLEAN :
       LET r == set_encoded_data(heap[self], b)
       IN /\ heap' = [heap EXCEPT ![self] = r.obj]
          /\ lists' = lists
          /\ last' = Observed(observe,
                       [Call("set_encoded_data", self) EXCEPT
                          !.data = Bytes(b),
                          !.raised = IF r.ok THEN "none" ELSE "key"])

\* get_encoded_data() changes nothing; data is what it returned.
GetEncodedData ==
  /\ Called
  /\ \E self \in Objects, observe \in BOOLEAN :
       LET r == get_encoded_data(heap[self])
       IN /\ heap' = heap
          /\ lists' = lists
          /\ last' = Observed(observe,
                       [Call("get_encoded_data", self) EXCEPT
                          !.data = r.ret, !.raised = r.raised])

Next ==
  \/ Populate
  \/ Reload
  \/ Store
  \/ Delete
  \/ Clear
  \/ GetSibling
  \/ GetSiblings

Spec == Init /\ [][Next]_vars

\* The object as an application fills it in: the first object is constructed
\* with encoding on or, as for binary data, off; it is populated from what a
\* read returned and changed through its setters.
InitFields ==
  /\ heap \in {<<RiakObject>>, <<[RiakObject EXCEPT !.encode_data = FALSE]>>}
  /\ lists = <<>>
  /\ last = Idle
  /\ calls = 0

NextFields ==
  \/ Populate
  \/ SetData
  \/ SetMetadata
  \/ SetContentType
  \/ AddLink
  \/ RemoveLink
  \/ SetEncodedData
  \/ GetEncodedData

SpecFields == InitFields /\ [][NextFields]_vars

\* The operations that can clear an object or fill it from a transport result.
NextCore ==
  \/ Populate
  \/ Reload
  \/ Store
  \/ Delete
  \/ Clear

SpecCore == Init /\ [][NextCore]_vars

\* The operations on one object at a time, the setters among them.
NextVclock ==
  \/ Populate
  \/ Reload
  \/ Store
  \/ Delete
  \/ Clear
  \/ GetSibling
  \/ SetData
  \/ SetMetadata
  \/ AddLink
  \/ RemoveLink

SpecVclock == Init /\ [][NextVclock]_vars

\* ------------------------------------------------------------ the claims
\* The object of the observed call, and what its methods return now and
\* returned before the call.
Self == last.obj

Before == last.pre

exists(st, self) == st.heap[self].exists

get_data(st, self) == st.heap[self].data

get_metadata(st, self) == st.heap[self].metadata

vclock(st, self) == st.heap[self].vclock

\* t.get is not asked for anything.
NoAnswer == [t \in 1..MaxTags |-> NoResult]

\* exists flag, payload, metadata, vclock and sibling set of an object.
View(st, self) ==
  [exists |-> exists(st, self), data |-> get_data(st, self),
   metadata |-> get_metadata(st, self), vclock |-> vclock(st, self),
   siblings |-> siblings_of(st, self)]

\* exists() == False, get_data() is None and the sibling set is empty.
Cleared(st, self) ==
  ~exists(st, self) /\ get_data(st, self) = NoData /\ siblings_of(st, self) = <<>>

\* The observed call was op and returned a (vclock, contents) pair of n entries.
GotPair(ops, n) ==
  last.op \in ops /\ last.arg.shape = "pair" /\ Len(last.arg.contents) = n

\* C1: after populate((vclock, contents)) with N > 1 content entries,
\* get_sibling_count() is N - 1 and has_siblings() is true.
C1_ConflictExpansionCount ==
  \A n \in 2..MaxContents :
    (GotPair({"populate"}, n) /\ last.raised = "none")
      => /\ get_sibling_count(Now, Self) = n - 1
         /\ has_siblings(Now, Self)

\* C2: after populate((vclock, contents)) with N > 1 content entries, every
\* member m of the conflict group enumerates, with get_siblings(), exactly the
\* N members of the group, each once, itself first (the order of the others
\* is not constrained here).
C2_ConflictEnumeration ==
  \A n \in 2..MaxContents :
    (GotPair({"populate"}, n) /\ last.raised = "none")
      => LET group == {Self} \cup (Objects \ 1..Len(Before.heap))
         IN \A m \in group :
              LET a == get_siblings(Now, m, NoAnswer).a
              IN /\ Len(a) = n
                 /\ {a[k] : k \in 1..Len(a)} = group
                 /\ a[1] = m

\* C3: once get_sibling(i) has fetched the version whose vtag was at index i
\* (one read, for that vtag), a later get_sibling(i) returns the same object
\* and issues no further read.
C3_LazySiblingStable ==
  (last.op = "get_sibling" /\ last.raised = "none" /\ last.reads # <<>>)
    => /\ last.reads = <<siblings_of(Before, Self)[last.i + 1].v>>
       /\ \A out \in SiblingOutcomes :
            LET again == get_sibling(Now, Self, last.i, out)
            IN again.ret = last.ret /\ again.reads = <<>>

\* C4: populating with a pair of one content entry, directly or through
\* reload, from any prior state, yields exists() == True, the given vclock,
\* get_sibling_count() == 0, has_siblings() == False and get_siblings() == [self].
C4_NoConflictPopulate ==
  GotPair({"populate", "reload"}, 1)
    => /\ exists(Now, Self)
       /\ vclock(Now, Self) = last.arg.vclock
       /\ get_sibling_count(Now, Self) = 0
       /\ ~has_siblings(Now, Self)
       /\ get_siblings(Now, Self, NoAnswer).a = <<Self>>

\* A reload that returned one version to an object that had siblings.
C4_Witness ==
  GotPair({"reload"}, 1) /\ last.raised = "none" /\ has_siblings(Before, Self)

C6_StoreAllOrNothing ==
  (last.op = "store" /\ last.raised # "none") => View(Now, Self) = View(Before, Self)

\* C7, as claimed: after delete the object is cleared whatever the transport
\* did, also when transport.delete raised.
C7_DeleteAlwaysClears ==
  last.op = "delete" => Cleared(Now, Self)

\* C7, amended: after delete the object is cleared whatever value
\* transport.delete returned; when transport.delete raises, every object is
\* exactly as it was before the call.
C7_DeleteClearsWhenReturned ==
  last.op = "delete"
    => IF last.raised = "none" THEN Cleared(Now, Self) ELSE Now = Before

\* A delete, answered with some value, of an object that exists and has siblings.
C7_Witness ==
  /\ last.op = "delete" /\ last.raised = "none" /\ last.arg = Malformed
  /\ exists(Before, Self) /\ has_siblings(Before, Self)

\* C8: t.put receives bucket.get_w of the caller's w and bucket.get_dw of the
\* caller's dw.
C8_StoreQuorums ==
  last.op = "store"
    => /\ last.put.called
       /\ last.put.w = get_w(last.w)
       /\ last.put.dw = get_dw(last.dw)

\* C9: a second reload for which the transport does the same as for the first
\* ends the same way and leaves the object's exists flag, payload, metadata,
\* vclock and sibling count as the first left them.
C9_ReloadIdempotent ==
  last.op = "reload"
    => LET second == reload(Now, Self, last.arg)
           after == St(second.heap, second.lists)
       IN /\ second.raised = last.raised
          /\ exists(after, Self) = exists(Now, Self)
          /\ get_data(after, Self) = get_data(Now, Self)
          /\ get_metadata(after, Self) = get_metadata(Now, Self)
          /\ vclock(after, Self) = vclock(Now, Self)
          /\ get_sibling_count(after, Self) = get_sibling_count(Now, Self)

\* A reload that changed the object and left it with siblings.
C9_Witness ==
  /\ last.op = "reload" /\ last.raised = "none"
  /\ has_siblings(Now, Self)
  /\ View(Now, Self) # View(Before, Self)

\* C10: after clear(), exists() == False, get_data() is None, there are no
\* siblings (get_sibling_count() == 0, get_siblings() == [self]), and a
\* following populate(None) changes nothing.
C10_ClearResets ==
  last.op = "clear"
    => /\ Cleared(Now, Self)
       /\ get_sibling_count(Now, Self) = 0
       /\ get_siblings(Now, Self, NoAnswer).a = <<Self>>
       /\ populate(Now, Self, NotFound) = End(Now, "none")

\* A clear() of an object that exists and has siblings.
C10_Witness ==
  last.op = "clear" /\ exists(Before, Self) /\ has_siblings(Before, Self)

\* The links of an object, and that no two of them are equal.
NoEqualLinks(links) ==
  \A j, k \in 1..Len(links) : j < k => ~isEqual(links[j], links[k])

\* The links equal to the given one.
Equal(links, link) == {k \in 1..Len(links) : isEqual(links[k], link)}

\* C11: no object's link list ever holds two links equal by (bucket, key,
\* tag); after add_link the list holds exactly one link equal to the added
\* one, also when it is added again; remove_link raises nothing, leaves only
\* links that are not equal to the removed one, in the order they had, and
\* changes nothing when no link was equal to it.
C11_LinkDedup ==
  /\ \A o \in Objects : NoEqualLinks(get_links(Now, o))
  /\ last.op = "add_link"
       => /\ Cardinality(Equal(get_links(Now, Self), last.link)) = 1
          /\ Cardinality(Equal(get_links(add_link(Now, Self, last.link), Self),
                               last.link)) = 1
          /\ last.raised = "none"
  /\ last.op = "remove_link"
       => LET was == get_links(Before, Self)
              is == get_links(Now, Self)
          IN /\ last.raised = "none"
             /\ {is[k] : k \in 1..Len(is)}
                  = {was[k] : k \in 1..Len(was)} \ {was[k] : k \in Equal(was, last.link)}
             /\ \A j, k \in 1..Len(is) : j < k => index(was, is[j]) < index(was, is[k])
             /\ Equal(was, last.link) = {} => Now = Before

\* A link is added to an object that has an equal link among three.
C11_Witness ==
  /\ last.op = "add_link"
  /\ Len(get_links(Before, Self)) = 3
  /\ Equal(get_links(Before, Self), last.link) # {}

\* Encoding is on and the bucket has no codec for the content type the object has.
NoCodec(st, self) ==
  /\ st.heap[self].encode_data
  /\ get_metadata(st, self).ctype # "absent"
  /\ get_decoder(get_metadata(st, self).ctype) = None
  /\ get_encoder(get_metadata(st, self).ctype) = None

\* C12: with encoding on and no codec for the content type,
\* set_encoded_data(bytes) stores exactly those bytes and does not raise, and
\* get_encoded_data() returns the bytes of a payload that is a string and
\* raises (the unencodable-data error) for any other payload; with encoding
\* off, set_encoded_data stores and get_encoded_data returns the payload as
\* it is.
C12_CodecFallback ==
  /\ (last.op = "set_encoded_data" /\ NoCodec(Before, Self))
       => last.raised = "none" /\ get_data(Now, Self) = last.data
  /\ (last.op = "get_encoded_data" /\ NoCodec(Before, Self))
       => IF get_data(Before, Self).kind = "bytes"
          THEN last.raised = "none" /\ last.data = get_data(Before, Self)
          ELSE last.raised = "unencodable"
  /\ (last.op = "set_encoded_data" /\ ~Before.heap[Self].encode_data)
       => last.raised = "none" /\ get_data(Now, Self) = last.data
  /\ (last.op = "get_encoded_data" /\ ~Before.heap[Self].encode_data)
       => last.raised = "none" /\ last.data = get_data(Before, Self)

\* C13: in every reachable state, an object that has siblings is itself
\* element 0 of its sibling set, and no sibling set has exactly one element.
C13_SelfFirst ==
  \A o \in Objects :
    /\ has_siblings(Now, o) => siblings_of(Now, o)[1] = ObjRef(o)
    /\ get_sibling_count(Now, o) # 1

\* C14, as claimed: in every state reached through populate, reload, store,
\* delete and clear, an object with exists() == False has get_data() None and
\* no siblings (get_sibling_count() == 0).
C14_NonExistentIsEmpty ==
  \A o \in Objects :
    ~exists(Now, o) => get_data(Now, o) = NoData /\ get_sibling_count(Now, o) = 0

\* C14, amended: in every state reached through populate, reload, store,
\* delete and clear, an object with exists() == False has get_data() None, and
\* its sibling set is empty or is a list of two or more version tags, none
\* of them fetched.
C14_NonExistentHoldsTagsOnly ==
  \A o \in Objects :
    ~exists(Now, o)
      => /\ get_data(Now, o) = NoData
         /\ get_sibling_count(Now, o) # 1
         /\ \A k \in 1..get_sibling_count(Now, o) : siblings_of(Now, o)[k].k = "tag"

\* An object that existed and had siblings is populated from two version
\* tags: it does not exist and has two siblings.
C14_Witness ==
  /\ last.op \in {"populate", "reload", "store"} /\ last.arg.shape = "list"
  /\ exists(Before, Self) /\ has_siblings(Before, Self)
  /\ ~exists(Now, Self) /\ get_sibling_count(Now, Self) = 2

\* The version tags of a transport result, as elements of a sibling list.
Placeholders(tags) == [j \in 1..Len(tags) |-> TagRef(tags[j])]

\* C15: after populate(list) with a list of k >= 1 version tags, the sibling
\* set is that list (the same k tags in the same order, none fetched),
\* exists() is False, and nothing was read: no object was created.
C15_VtagPopulateVerbatim ==
  (last.op = "populate" /\ last.arg.shape = "list" /\ Len(last.arg.tags) >= 1)
    => /\ last.raised = "none"
       /\ siblings_of(Now, Self) = Placeholders(last.arg.tags)
       /\ ~exists(Now, Self)
       /\ Len(heap) = Len(Before.heap)

\* The elements of a sequence, and those of a sibling list that are version
\* tags still to be fetched.
Range(s) == {s[k] : k \in 1..Len(s)}

Pending(s) == {s[k].v : k \in {j \in 1..Len(s) : s[j].k = "tag"}}

\* The object was populated from a list of version tags: it has siblings and
\* is not one of them.
FromTags(st, self) ==
  has_siblings(st, self) /\ ObjRef(self) \notin Range(siblings_of(st, self))

\* C16: for an object populated from k >= 2 version tags, some of them
\* perhaps fetched already by get_sibling, a get_siblings() that does not
\* raise has read each tag still pending exactly once and nothing else, has
\* left no tag in the sibling set, and returned self followed by k different
\* objects, the ones now in the sibling set, those fetched earlier among
\* them; a second get_siblings() reads nothing and returns the same objects.
C16_GetSiblingsFetchesOnce ==
  (last.op = "get_siblings" /\ last.raised = "none" /\ FromTags(Before, Self))
    => LET was == siblings_of(Before, Self)
           is == siblings_of(Now, Self)
           k == Len(was)
           again == get_siblings(Now, Self, NoAnswer)
       IN /\ Len(last.reads) = Cardinality(Pending(was))
          /\ Range(last.reads) = Pending(was)
          /\ Len(is) = k /\ Pending(is) = {}
          /\ Len(last.a) = k + 1 /\ last.a[1] = Self
          /\ {ObjRef(last.a[j]) : j \in 2..(k + 1)} = Range(is)
          /\ Cardinality(Range(is)) = k
          /\ {e \in Range(was) : e.k = "obj"} \subseteq Range(is)
          /\ again.raised = "none" /\ again.reads = <<>>
          /\ Len(again.a) = k + 1 /\ Range(again.a) = Range(last.a)

\* get_siblings() on an object of which one version was fetched before and
\* another was not.
C16_Witness ==
  /\ last.op = "get_siblings" /\ last.raised = "none" /\ FromTags(Before, Self)
  /\ Pending(siblings_of(Before, Self)) # {}
  /\ \E e \in Range(siblings_of(Before, Self)) : e.k = "obj"

\* The objects that hold the sibling list that self holds.
Group(st, self) ==
  {m \in 1..Len(st.heap) : st.heap[m].sibs # 0 /\ st.heap[m].sibs = st.heap[self].sibs}

\* C17: the members of a conflict group hold one sibling list. After a pair
\* of N > 1 entries the N objects hold the same list; a call on one object
\* leaves the other objects that held one list holding one list; and after a
\* get_sibling that fetched a version, the object called, the returned object
\* and every object that held the list with the called one hold the same
\* list, in which the fetched tag is no longer pending, so that no
\* get_sibling of any of them reads that tag again.
C17_SharedSiblingList ==
  /\ \A n \in 2..MaxContents :
       (GotPair({"populate", "reload", "store"}, n) /\ last.raised = "none")
         => Group(Now, Self) = {Self} \cup (Objects \ 1..Len(Before.heap))
  /\ last.op # "-"
       => \A m \in 1..Len(Before.heap) :
            m # Self => (Group(Now, m) \cap 1..Len(Before.heap)) \ {Self}
                          = Group(Before, m) \ {Self}
  /\ (last.op = "get_sibling" /\ last.raised = "none" /\ last.reads # <<>>)
       => /\ Group(Now, Self) = Group(Before, Self) \cup {last.ret}
          /\ \A m \in Group(Now, Self) :
               /\ siblings_of(Now, m) = siblings_of(Now, Self)
               /\ last.reads[1] \notin Pending(siblings_of(Now, m))
               /\ \A j \in 0..(get_sibling_count(Now, m) - 1), out \in SiblingOutcomes :
                    get_sibling(Now, m, j, out).reads # last.reads

\* A member of a group fetches a version while another object, fetched
\* earlier, holds the list too.
C17_Witness ==
  /\ last.op = "get_sibling" /\ last.raised = "none" /\ last.reads # <<>>
  /\ Group(Before, Self) \ {Self} # {}
  /\ Cardinality(Group(Now, Self)) = 3

\* The observed call populated its object from a (vclock, contents) pair.
PopulatedFromPair ==
  last.op \in {"populate", "reload", "store"} /\ last.arg.shape = "pair"

\* C18: the vclock of an object changes only when that object is populated
\* from a (vclock, contents) pair, and is then the pair's vclock: clear,
\* delete, populate(None), populate(list), a store or reload whose transport
\* result is None or raised, set_data, set_metadata, add_link, remove_link and
\* get_sibling leave the vclock of every object as it was; and t.put receives
\* the object with the vclock it had before the store.
C18_VclockOnlyFromPair ==
  /\ last.op # "-"
       => \A o \in 1..Len(Before.heap) :
            IF o = Self /\ PopulatedFromPair
            THEN vclock(Now, o) = last.arg.vclock
            ELSE vclock(Now, o) = vclock(Before, o)
  /\ last.op = "store"
       => last.put.called /\ last.put.vclock = vclock(Before, Self)

\* A store without a returned body on an object that has a vclock: the
\* vclock it had went to t.put and stays.
C18_Witness ==
  /\ last.op = "store" /\ last.arg = NotFound /\ last.raised = "none"
  /\ vclock(Before, Self) # None
  /\ get_data(Before, Self) = Value("b1") /\ get_links(Before, Self) # <<>>

\* The payload an object with encoding on or off gets from an entry's bytes.
Decoded(encoding, entry) ==
  IF encoding /\ get_decoder(entry.md.ctype) # None
  THEN Value(entry.data) ELSE Bytes(entry.data)

\* The setters of payload, metadata, content type and links.
Setters == {"set_data", "set_metadata", "set_content_type", "add_link", "remove_link"}

\* C19: after populate of a pair with N > 1 entries, the object and the N - 1
\* objects created for the other entries each exist, have the pair's vclock
\* and the metadata and the decoded payload of their own entry; and set_data,
\* set_metadata, set_content_type, add_link or remove_link on one object
\* leaves the payload, the metadata and the links of every other object as
\* they were.
C19_SiblingValuesIndependent ==
  /\ \A n \in 2..MaxContents :
       (GotPair({"populate"}, n) /\ last.raised = "none")
         => /\ Len(heap) = Len(Before.heap) + n - 1
            /\ \A j \in 1..n :
                 LET m == IF j = 1 THEN Self ELSE Len(Before.heap) + j - 1
                     entry == last.arg.contents[j]
                 IN /\ exists(Now, m)
                    /\ vclock(Now, m) = last.arg.vclock
                    /\ get_metadata(Now, m) = entry.md
                    /\ get_data(Now, m) = Decoded(Before.heap[Self].encode_data, entry)
  /\ last.op \in Setters
       => \A m \in Objects \ {Self} :
            /\ get_data(Now, m) = get_data(Before, m)
            /\ get_metadata(Now, m) = get_metadata(Before, m)
            /\ get_links(Now, m) = get_links(Before, m)

\* A member of a conflict group of two gets another content type or another
\* link.
C19_Witness ==
  /\ last.op \in {"set_content_type", "add_link"}
  /\ Cardinality(Group(Before, Self)) = 2
  /\ ObjRef(Self) \in Range(siblings_of(Before, Self))
  /\ get_metadata(Now, Self) # get_metadata(Before, Self)

\* A read of one version that returns that version.
Found == {Pair("vc1", <<Json>>), Pair("vc2", <<Binary>>)}

\* C20: for an object just populated from k >= 2 version tags, a get_sibling(i)
\* that fetches a version leaves a sibling set of length k that holds the
\* fetched object and every other tag, each once; and from then on
\* get_sibling(j) answers for the tag that was at index j originally: for
\* j = i it returns the fetched object without a read, for any other j it
\* reads the tag that was at index j.
C20_MaterializationKeepsIndexing ==
  (/\ last.op = "get_sibling" /\ last.raised = "none" /\ last.reads # <<>>
   /\ FromTags(Before, Self)
   /\ Cardinality(Pending(siblings_of(Before, Self))) = get_sibling_count(Before, Self))
    => LET was == siblings_of(Before, Self)
           is == siblings_of(Now, Self)
       IN /\ Len(is) = Len(was)
          /\ Range(is) = (Range(was) \ {was[last.i + 1]}) \cup {ObjRef(last.ret)}
          /\ Cardinality(Range(is)) = Len(was)
          /\ last.reads = <<was[last.i + 1].v>>
          /\ \A j \in 0..(Len(was) - 1), out \in Found :
               LET next == get_sibling(Now, Self, j, out)
               IN IF j = last.i
                  THEN next.ret = last.ret /\ next.reads = <<>>
                  ELSE next.reads = <<was[j + 1].v>>

====
